---------------------------- MODULE Spec2Model ----------------------------
(***************************************************************************)
(* A model of crashtest.c: the /proc/crashtest control file, its name      *)
(* table, the parser of a written payload, the dispatcher do_crash and the *)
(* fault routines, run by tasks that write to and read from the file.      *)
(*                                                                         *)
(* A C string is a sequence of one-character strings; the byte 0 is NUL.   *)
(***************************************************************************)
EXTENDS Integers, Sequences, FiniteSets, TLC

\* ------------------------------------------------------------------ bounds

\* Longest run of whitespace put before or after a name in a written payload.
MaxPad == 2
\* Length of the longest payload written (beyond the 31 accepted bytes).
MaxCount == 33
\* Frames of recursive_loop the model follows an invocation for: 8 of them
\* fill the stack, and each further one may be the last.
MaxFrames == 10
\* How far below 0 the model follows recur_count.
MaxUnder == 2

\* --------------------------------------------------------------- constants

\* char buf[32] in procfs_write
BufSize == 32
\* static int recur_count = 40
RecurInit == 40
\* BUFSIZE is THREAD_SIZE / 8: the stack cannot hold 8 frames of recursive_loop
StackFrames == 8
\* errno values returned (negated) by procfs_write
E2BIG == 7
EFAULT == 14

NUL == "NUL"

\* ------------------------------------------------------------- enum ctype

CT_NONE == 0
CT_PANIC == 1
CT_BUG == 2
CT_EXCEPTION == 3
CT_LOOP == 4
CT_OVERFLOW == 5
CT_CORRUPT_STACK == 6
CT_UNALIGNED_LOAD_STORE_WRITE == 7
CT_OVERWRITE_ALLOCATION == 8
CT_WRITE_AFTER_FREE == 9
CT_SOFTLOCKUP == 10
CT_HARDLOCKUP == 11
CT_HUNG_TASK == 12
CT_SCHEDULING_WHILE_ATOMIC == 13
CT_DEADLOCK == 14

\* ------------------------------------------------------- string literals

S_PANIC == <<"P","A","N","I","C">>
S_BUG == <<"B","U","G">>
S_EXCEPTION == <<"E","X","C","E","P","T","I","O","N">>
S_LOOP == <<"L","O","O","P">>
S_OVERFLOW == <<"O","V","E","R","F","L","O","W">>
S_CORRUPT_STACK == <<"C","O","R","R","U","P","T","_","S","T","A","C","K">>
S_UNALIGNED_LOAD_STORE_WRITE ==
    <<"U","N","A","L","I","G","N","E","D","_","L","O","A","D","_",
      "S","T","O","R","E","_","W","R","I","T","E">>
S_OVERWRITE_ALLOCATION ==
    <<"O","V","E","R","W","R","I","T","E","_",
      "A","L","L","O","C","A","T","I","O","N">>
S_WRITE_AFTER_FREE ==
    <<"W","R","I","T","E","_","A","F","T","E","R","_","F","R","E","E">>
S_SOFTLOCKUP == <<"S","O","F","T","L","O","C","K","U","P">>
S_HARDLOCKUP == <<"H","A","R","D","L","O","C","K","U","P">>
S_HUNG_TASK == <<"H","U","N","G","_","T","A","S","K">>
S_SCHEDULING_WHILE_ATOMIC ==
    <<"S","C","H","E","D","U","L","I","N","G","_","W","H","I","L","E","_",
      "A","T","O","M","I","C">>
S_DEADLOCK == <<"D","E","A","D","L","O","C","K">>

\* static char *ct_type[]
ct_type ==
    << S_PANIC, S_BUG, S_EXCEPTION, S_LOOP, S_OVERFLOW, S_CORRUPT_STACK,
       S_UNALIGNED_LOAD_STORE_WRITE, S_OVERWRITE_ALLOCATION,
       S_WRITE_AFTER_FREE, S_SOFTLOCKUP, S_HARDLOCKUP, S_HUNG_TASK,
       S_SCHEDULING_WHILE_ATOMIC, S_DEADLOCK >>

\* ARRAY_SIZE(ct_type)
ARRAY_SIZE_ct_type == Len(ct_type)

\* ------------------------------------------------------------ C strings

\* The bytes of b before its first NUL (all of b when it holds none): the
\* string a char * to b's first byte denotes.
RECURSIVE CStr(_)
CStr(b) ==
    IF b = << >> \/ Head(b) = NUL THEN << >>
    ELSE <<Head(b)>> \o CStr(Tail(b))

\* strlen
strlen(s) == Len(CStr(s))

\* isspace, on the characters of the model
isspace(c) == c \in {" ", "\t", "\n", "\r", "\f"}

\* A faulty variant of streq: strncmp(a, b, strlen(a)) == 0.
streq_prefix(a, b) ==
    /\ Len(CStr(a)) <= Len(CStr(b))
    /\ CStr(a) = SubSeq(CStr(b), 1, Len(CStr(a)))

\* strcmp(a, b) == 0
streq(a, b) == CStr(a) = CStr(b)

\* The loop of strim: the index of the last character of s[1..end] that is
\* no whitespace, 0 when there is none.
RECURSIVE strim_end(_, _)
strim_end(s, end) ==
    IF end >= 1 /\ isspace(s[end]) THEN strim_end(s, end - 1) ELSE end

\* skip_spaces: s from its first character that is no whitespace.
RECURSIVE skip_spaces(_)
skip_spaces(s) ==
    IF s # << >> /\ isspace(Head(s)) THEN skip_spaces(Tail(s)) ELSE s

\* strim(s): cuts the trailing whitespace off s in place, and returns a
\* pointer past the leading whitespace.  buf is the string left at s, ret
\* is the string returned.
strim(s) ==
    LET str == CStr(s)
        size == Len(str)
        cut == IF size = 0 THEN str ELSE SubSeq(str, 1, strim_end(str, size))
    IN [buf |-> cut, ret |-> skip_spaces(cut)]

\* A faulty variant of the loop of parse_ct_type: returns the index, not index + 1.
RECURSIVE parse_loop_index(_, _)
parse_loop_index(what, i) ==
    IF i < ARRAY_SIZE_ct_type
    THEN IF streq(what, ct_type[i + 1]) THEN i
         ELSE parse_loop_index(what, i + 1)
    ELSE CT_NONE

\* The for loop of parse_ct_type from index i (0-based, as in the source).
RECURSIVE parse_loop(_, _)
parse_loop(what, i) ==
    IF i < ARRAY_SIZE_ct_type
    THEN IF streq(what, ct_type[i + 1]) THEN i + 1
         ELSE parse_loop(what, i + 1)
    ELSE CT_NONE

parse_ct_type(what) == parse_loop(what, 0)


\* ------------------------------------------------------------- payloads

Names == {ct_type[i] : i \in 1..ARRAY_SIZE_ct_type}

\* The whitespace a payload is padded with.
PadChars == {" ", "\t", "\n"}

\* n times the character c.
Rep(c, n) == [i \in 1..n |-> c]

\* Every sequence of at most MaxPad padding characters.
Pads == UNION {[1..n -> PadChars] : n \in 0..MaxPad}

\* s, followed by spaces up to the length len.
PadTo(s, len) == s \o Rep(" ", len - Len(s))

\* Each name as a shell's echo writes it: followed by a newline.
EchoWrites == {n \o <<"\n">> : n \in Names}

\* Each name with padding before and after it.
PaddedWrites == {pre \o n \o post : pre \in Pads, n \in Names, post \in Pads}

\* Each name padded to the largest accepted length, to the smallest rejected
\* one, and to MaxCount.
LongWrites == {PadTo(n, len) : n \in Names, len \in {BufSize - 1, BufSize, MaxCount}}

\* Payloads that name nothing (or do so only up to a NUL byte).
OtherWrites ==
    { << >>, <<"\n">>, <<" ", "\n">>,
      <<"B","O","G","U","S">>, <<"N","O","N","E">>, <<"N","O","N","E","\n">>,
      <<"p","a","n","i","c">>, <<"P","a","n","i","c","\n">>,
      <<"P","A","N","I">>, <<"P","A","N","I","C","X">>,
      <<"P","A","N"," ","I","C">>, <<"B","U","G","S","\n">>,
      <<"L","O","O","P",NUL,"X">>, <<NUL,"B","U","G">> }

AllWrites == PaddedWrites \cup LongWrites \cup OtherWrites \cup EchoWrites

\* The names of the two routines that take locks, and a payload that names
\* nothing.
LockWrites ==
    {S_DEADLOCK \o <<"\n">>, S_SCHEDULING_WHILE_ATOMIC \o <<"\n">>, <<"\n">>}

\* Each name once, a payload that names nothing and one that is too long.
FewWrites ==
    EchoWrites \cup {<<"B","O","G","U","S","\n">>, PadTo(S_DEADLOCK, BufSize)}

\* ---------------------------------------------------------------- state

Tasks == {1, 2}

VARIABLES
    online,        \* the tasks that use the file
    writes,        \* which payloads user space writes: see Payloads
    task,          \* each task's registers and stack: see IdleTask
    spin,          \* deadlock_splat's lock1 and lock2: the holder of each,
                   \* 0 when it is free
    sleep_lock,    \* scheduling_while_atomic's rwsem: its readers
    atomic_lock,   \* scheduling_while_atomic's rwlock: its readers
    recur_count,   \* recursive_loop's static counter
    align_data,    \* the five bytes of align_data
    corrupt,       \* the memory written out of bounds so far
    panicked       \* panic() was called: the machine is halted

\* The payloads user space writes.
Payloads ==
    CASE writes = "few" -> FewWrites
      [] writes = "locks" -> LockWrites
      [] OTHER -> AllWrites

vars == << online, writes, task, spin, sleep_lock, atomic_lock,
           recur_count, align_data, corrupt, panicked >>

shared == << spin, sleep_lock, atomic_lock, recur_count, align_data,
             corrupt, panicked >>

\* A task in user space, between two calls.
\*   pc     where the task is
\*   call   the file operation it is in: "none", "read" or "write"
\*   ubuf   write's user buffer (count is its length)
\*   buf    procfs_write's buf, as a string
\*   which  do_crash's argument
\*   ret    the value the call returned
\*   m      the seq_file procfs_read printed to
\*   depth  the frames of recursive_loop on the stack
\*   step   the statement of deadlock_splat the task is at, or is to start at
\*   held_locks   the locks the task holds, in the order it took them
\*   preempt_count, irqs_disabled   of the CPU the task runs on
IdleTask ==
    [pc |-> "user", call |-> "none", ubuf |-> << >>, buf |-> << >>,
     which |-> CT_NONE, ret |-> 0, m |-> << >>, depth |-> 0,
     step |-> 1, held_locks |-> << >>, preempt_count |-> 0, irqs_disabled |-> FALSE]

\* static u8 align_data[5] = {1, 2, 3, 4, 5}
AlignInit == <<1, 2, 3, 4, 5>>
\* The bytes of u32 val = 0x12345678, as a little-endian machine stores them.
AlignVal == <<120, 86, 52, 18>>
\* The bytes of val = 0x87654321
AlignValZero == <<33, 67, 101, 135>>

InitShared ==
    /\ task = [t \in Tasks |-> IdleTask]
    /\ spin = [l \in {"lock1", "lock2"} |-> 0]
    /\ sleep_lock = {}
    /\ atomic_lock = {}
    /\ recur_count = RecurInit
    /\ align_data = AlignInit
    /\ corrupt = {}
    /\ panicked = FALSE

\* One task at a time uses the file.
Init ==
    /\ online = {1}
    /\ writes = "few"
    /\ InitShared

\* Every task uses the file, for the routines that take locks.
InitLocks ==
    /\ online = Tasks
    /\ writes = "locks"
    /\ InitShared

\* One task uses the file, and writes every payload.
InitWrite ==
    /\ online = {1}
    /\ writes = "all"
    /\ InitShared

At(t, label) == task[t].pc = label


\* The task t with the fields of the record r changed, the other tasks alone.
Set(t, r) == task' = [task EXCEPT ![t] = r @@ task[t]]

Goto(t, label) == Set(t, [pc |-> label])

\* An oops: the kernel kills the task in the middle of its call.
Oops(t) == Goto(t, "oops")

\* ------------------------------------------------------------ procfs_read

\* A faulty variant of the loop of procfs_read: the names are printed with "%s".
RECURSIVE seq_printf_loop_no_newline(_, _)
seq_printf_loop_no_newline(m, i) ==
    IF i < ARRAY_SIZE_ct_type
    THEN seq_printf_loop_no_newline(m \o ct_type[i + 1], i + 1)
    ELSE m

\* The seq_file after the loop of procfs_read from index i.
RECURSIVE seq_printf_loop(_, _)
seq_printf_loop(m, i) ==
    IF i < ARRAY_SIZE_ct_type
    THEN seq_printf_loop(m \o ct_type[i + 1] \o <<"\n">>, i + 1)
    ELSE m

\* open and read of the file: single_open runs procfs_read on an empty
\* seq_file, and read returns what it printed.
procfs_read(t) ==
    /\ t \in online
    /\ At(t, "user")
    /\ Set(t, [pc |-> "ret", call |-> "read", m |-> seq_printf_loop(<< >>, 0),
               ret |-> 0])
    /\ UNCHANGED << online, writes, shared >>

\* ----------------------------------------------------------- procfs_write

\* A faulty variant of too_big: count > sizeof(buf).
too_big_by_one(count) == count > BufSize

\* count > sizeof(buf) - 1
too_big(count) == count > BufSize - 1

\* A faulty variant of procfs_write: strim is not called.
procfs_write_no_strim(t) ==
    /\ t \in online
    /\ At(t, "user")
    /\ \E ubuf \in Payloads, fault \in BOOLEAN :
         LET count == Len(ubuf)
             buf == CStr(ubuf)
         IN  IF too_big(count)
             THEN Set(t, [pc |-> "ret", call |-> "write", ubuf |-> ubuf,
                          ret |-> -E2BIG])
             ELSE IF fault
             THEN Set(t, [pc |-> "ret", call |-> "write", ubuf |-> ubuf,
                          ret |-> -EFAULT])
             ELSE Set(t, [pc |-> "do_crash", call |-> "write", ubuf |-> ubuf,
                          buf |-> buf, which |-> parse_ct_type(buf)])
    /\ UNCHANGED << online, writes, shared >>

\* procfs_write, to its call of do_crash: ubuf holds count bytes; fault says
\* that copy_from_user could not read them.
procfs_write(t) ==
    /\ t \in online
    /\ At(t, "user")
    /\ \E ubuf \in Payloads, fault \in BOOLEAN :
         LET count == Len(ubuf)
             buf == strim(ubuf).buf
         IN  IF too_big(count)
             THEN Set(t, [pc |-> "ret", call |-> "write", ubuf |-> ubuf,
                          ret |-> -E2BIG])
             ELSE IF fault
             THEN Set(t, [pc |-> "ret", call |-> "write", ubuf |-> ubuf,
                          ret |-> -EFAULT])
             ELSE Set(t, [pc |-> "do_crash", call |-> "write", ubuf |-> ubuf,
                          buf |-> buf, which |-> parse_ct_type(buf)])
    /\ UNCHANGED << online, writes, shared >>

\* return count, once do_crash has returned.
procfs_write_return(t) ==
    /\ At(t, "break")
    /\ Set(t, [pc |-> "ret", ret |-> Len(task[t].ubuf)])
    /\ UNCHANGED << online, writes, shared >>

\* The call is over: the task is back in user space.
sys_return(t) ==
    /\ At(t, "ret")
    /\ Set(t, [pc |-> "user", call |-> "none", ubuf |-> << >>, buf |-> << >>,
               which |-> CT_NONE, ret |-> 0, m |-> << >>, step |-> 1])
    /\ UNCHANGED << online, writes, shared >>

\* --------------------------------------------------------------- do_crash

\* The switch of do_crash: the first statement of the case of which.
crash_case(which) ==
    CASE which = CT_PANIC -> "panic"
      [] which = CT_BUG -> "BUG"
      [] which = CT_EXCEPTION -> "null_write"
      [] which = CT_LOOP -> "loop"
      [] which = CT_OVERFLOW -> "recursive_loop"
      [] which = CT_CORRUPT_STACK -> "corrupt_stack"
      [] which = CT_UNALIGNED_LOAD_STORE_WRITE -> "unaligned"
      [] which = CT_OVERWRITE_ALLOCATION -> "overwrite_allocation"
      [] which = CT_WRITE_AFTER_FREE -> "write_after_free"
      [] which = CT_SOFTLOCKUP -> "preempt_disable"
      [] which = CT_HARDLOCKUP -> "local_irq_disable"
      [] which = CT_HUNG_TASK -> "hung_task"
      [] which = CT_SCHEDULING_WHILE_ATOMIC -> "down_read"
      [] which = CT_DEADLOCK -> "deadlock_splat"
      [] OTHER -> "break"

do_crash(t) ==
    /\ At(t, "do_crash")
    /\ Set(t, [pc |-> crash_case(task[t].which)])
    /\ UNCHANGED << online, writes, shared >>

\* panic(): the machine halts, the other CPUs are stopped.
panic(t) ==
    /\ At(t, "panic")
    /\ panicked' = TRUE
    /\ task' = [u \in Tasks |->
                  [pc |-> IF u = t THEN "panicked" ELSE "stopped"] @@ task[u]]
    /\ UNCHANGED << online, writes, spin, sleep_lock, atomic_lock,
                    recur_count, align_data, corrupt >>

\* BUG(): an oops.
BUG(t) ==
    /\ At(t, "BUG")
    /\ Oops(t)
    /\ UNCHANGED << online, writes, shared >>

\* *((int *)NULL) = 0: an oops.
null_write(t) ==
    /\ At(t, "null_write")
    /\ Oops(t)
    /\ UNCHANGED << online, writes, shared >>

\* One turn of for (;;) of CT_LOOP, CT_SOFTLOCKUP or CT_HARDLOCKUP.
for_ever(t) ==
    /\ task[t].pc \in {"loop", "softlockup", "hardlockup"}
    /\ UNCHANGED vars

\* A faulty variant of softlockup: the loop is entered with preemption enabled.
softlockup_preemptible(t) ==
    /\ At(t, "preempt_disable")
    /\ Goto(t, "softlockup")
    /\ UNCHANGED << online, writes, shared >>

\* preempt_disable() of CT_SOFTLOCKUP
softlockup(t) ==
    /\ At(t, "preempt_disable")
    /\ Set(t, [pc |-> "softlockup",
               preempt_count |-> task[t].preempt_count + 1])
    /\ UNCHANGED << online, writes, shared >>

\* local_irq_disable() of CT_HARDLOCKUP
hardlockup(t) ==
    /\ At(t, "local_irq_disable")
    /\ Set(t, [pc |-> "hardlockup", irqs_disabled |-> TRUE])
    /\ UNCHANGED << online, writes, shared >>

\* set_current_state(TASK_UNINTERRUPTIBLE); schedule(): nothing wakes the
\* task.
hung_task(t) ==
    /\ At(t, "hung_task")
    /\ Goto(t, "schedule_uninterruptible")
    /\ UNCHANGED << online, writes, shared >>


\* -------------------------------------------------------- recursive_loop

\* x - 1 in an int (the kernel is built with -fno-strict-overflow).
Dec32(x) == IF x = -2147483647 - 1 THEN 2147483647 ELSE x - 1

\* One call of recursive_loop: memset(buf, 0xff, sizeof(buf)), recur_count--
\* and the test of it; at 0 every frame returns 0, otherwise the function
\* calls itself.  From the frame StackFrames on, buf lies below the stack:
\* the write faults, or lands in the memory below.  The decrement is taken
\* as one step.  The model follows an invocation for MaxFrames frames and
\* the counter down to -MaxUnder.
recursive_loop(t) ==
    /\ At(t, "recursive_loop")
    /\ LET d == task[t].depth
           call == /\ recur_count > -MaxUnder
                   /\ recur_count' = Dec32(recur_count)
                   /\ IF recur_count' = 0
                      THEN Set(t, [pc |-> "break", depth |-> 0])
                      ELSE Set(t, [depth |-> d + 1])
       IN  IF d + 1 < StackFrames
           THEN call /\ UNCHANGED corrupt
           ELSE \/ Oops(t) /\ UNCHANGED << recur_count, corrupt >>
                \/ d < MaxFrames /\ call /\ corrupt' = corrupt \cup {"stack"}
    /\ UNCHANGED << online, writes, spin, sleep_lock, atomic_lock,
                    align_data, panicked >>

\* ------------------------------------------------- the memory corruptions

\* corrupt_stack(&data): 64 bytes written over the 8 of data.  The stack
\* protector panics, the return to an overwritten address faults, or the
\* overwritten words are not used.
corrupt_stack(t) ==
    /\ At(t, "corrupt_stack")
    /\ corrupt' = corrupt \cup {"stack"}
    /\ \/ Goto(t, "panic")
       \/ Oops(t)
       \/ Goto(t, "break")
    /\ UNCHANGED << online, writes, spin, sleep_lock, atomic_lock,
                    recur_count, align_data, panicked >>

\* The load and the store through p = align_data + 1; a machine that traps
\* the unaligned access ends the task.
unaligned(t) ==
    /\ At(t, "unaligned")
    /\ \/ /\ LET p == SubSeq(align_data, 2, 5)
                 val == IF p = <<0, 0, 0, 0>> THEN AlignValZero ELSE AlignVal
             IN  align_data' = <<align_data[1]>> \o val
          /\ Goto(t, "break")
       \/ Oops(t) /\ UNCHANGED align_data
    /\ UNCHANGED << online, writes, spin, sleep_lock, atomic_lock,
                    recur_count, corrupt, panicked >>

\* kmalloc(1020), the store at byte 1024 of it, kfree; a failed kmalloc
\* makes the store a fault.
overwrite_allocation(t) ==
    /\ At(t, "overwrite_allocation")
    /\ \/ corrupt' = corrupt \cup {"heap"} /\ Goto(t, "break")
       \/ Oops(t) /\ UNCHANGED corrupt
    /\ UNCHANGED << online, writes, spin, sleep_lock, atomic_lock,
                    recur_count, align_data, panicked >>

\* kmalloc, kfree and schedule() of CT_WRITE_AFTER_FREE
write_after_free(t) ==
    /\ At(t, "write_after_free")
    /\ Goto(t, "memset_freed")
    /\ UNCHANGED << online, writes, shared >>

\* memset(data, 0x78, len) on the freed memory (a fault after a failed
\* kmalloc)
memset_freed(t) ==
    /\ At(t, "memset_freed")
    /\ \/ corrupt' = corrupt \cup {"heap"} /\ Goto(t, "break")
       \/ Oops(t) /\ UNCHANGED corrupt
    /\ UNCHANGED << online, writes, spin, sleep_lock, atomic_lock,
                    recur_count, align_data, panicked >>


\* ------------------------------------------------ scheduling_while_atomic

\* The locks of held without l.
Release(held, l) == SelectSeq(held, LAMBDA x : x # l)

\* down_read(&sleep_lock): nothing ever takes the semaphore for writing.
down_read(t) ==
    /\ At(t, "down_read")
    /\ sleep_lock' = sleep_lock \cup {t}
    /\ Set(t, [pc |-> "read_lock",
               held_locks |-> Append(task[t].held_locks, "sleep_lock")])
    /\ UNCHANGED << online, writes, spin, atomic_lock, recur_count,
                    align_data, corrupt, panicked >>

\* read_lock(&atomic_lock): nothing ever takes the lock for writing.
read_lock(t) ==
    /\ At(t, "read_lock")
    /\ atomic_lock' = atomic_lock \cup {t}
    /\ Set(t, [pc |-> "schedule_timeout",
               held_locks |-> Append(task[t].held_locks, "atomic_lock"),
               preempt_count |-> task[t].preempt_count + 1])
    /\ UNCHANGED << online, writes, spin, sleep_lock, recur_count,
                    align_data, corrupt, panicked >>

\* schedule_timeout_interruptible(1): the task gives up the CPU and runs
\* again a tick later.
schedule_timeout(t) ==
    /\ At(t, "schedule_timeout")
    /\ Goto(t, "read_unlock")
    /\ UNCHANGED << online, writes, shared >>

\* A faulty variant of read_unlock: the lock is not released.
read_unlock_skipped(t) ==
    /\ At(t, "read_unlock")
    /\ Goto(t, "up_read")
    /\ UNCHANGED << online, writes, shared >>

\* read_unlock(&atomic_lock)
read_unlock(t) ==
    /\ At(t, "read_unlock")
    /\ atomic_lock' = atomic_lock \ {t}
    /\ Set(t, [pc |-> "up_read",
               held_locks |-> Release(task[t].held_locks, "atomic_lock"),
               preempt_count |-> task[t].preempt_count - 1])
    /\ UNCHANGED << online, writes, spin, sleep_lock, recur_count,
                    align_data, corrupt, panicked >>

\* up_read(&sleep_lock)
up_read(t) ==
    /\ At(t, "up_read")
    /\ sleep_lock' = sleep_lock \ {t}
    /\ Set(t, [pc |-> "break",
               held_locks |-> Release(task[t].held_locks, "sleep_lock")])
    /\ UNCHANGED << online, writes, spin, atomic_lock, recur_count,
                    align_data, corrupt, panicked >>

\* --------------------------------------------------------- deadlock_splat

\* A faulty variant of deadlock_splat_code: lock2 is not released the first time.
deadlock_splat_code_leak ==
    << <<"spin_lock", "lock1">>, <<"spin_lock", "lock2">>,
       <<"spin_unlock", "lock1">>, <<"spin_unlock", "lock1">>,
       <<"spin_lock", "lock2">>, <<"spin_lock", "lock1">>,
       <<"spin_unlock", "lock1">>, <<"spin_unlock", "lock2">> >>

\* The statements of deadlock_splat.
deadlock_splat_code ==
    << <<"spin_lock", "lock1">>, <<"spin_lock", "lock2">>,
       <<"spin_unlock", "lock2">>, <<"spin_unlock", "lock1">>,
       <<"spin_lock", "lock2">>, <<"spin_lock", "lock1">>,
       <<"spin_unlock", "lock1">>, <<"spin_unlock", "lock2">> >>

\* Where a task goes after statement i of deadlock_splat.
AfterStep(i) ==
    IF i = Len(deadlock_splat_code)
    THEN [pc |-> "break", step |-> 1]
    ELSE [pc |-> "deadlock_splat", step |-> i + 1]

\* A faulty variant of spin_lock: a held lock is taken all the same.
spin_lock_no_wait(t) ==
    /\ At(t, "deadlock_splat")
    /\ LET l == deadlock_splat_code[task[t].step][2] IN
       /\ deadlock_splat_code[task[t].step][1] = "spin_lock"
       /\ spin' = [spin EXCEPT ![l] = t]
       /\ Set(t, AfterStep(task[t].step) @@
                 [held_locks |-> Append(task[t].held_locks, l),
                  preempt_count |-> task[t].preempt_count + 1])
    /\ UNCHANGED << online, writes, sleep_lock, atomic_lock, recur_count,
                    align_data, corrupt, panicked >>

\* spin_lock(l), the statement the task is at: the task spins until l is
\* free, and takes it.
spin_lock(t) ==
    /\ At(t, "deadlock_splat")
    /\ LET l == deadlock_splat_code[task[t].step][2] IN
       /\ deadlock_splat_code[task[t].step][1] = "spin_lock"
       /\ spin[l] = 0
       /\ spin' = [spin EXCEPT ![l] = t]
       /\ Set(t, AfterStep(task[t].step) @@
                 [held_locks |-> Append(task[t].held_locks, l),
                  preempt_count |-> task[t].preempt_count + 1])
    /\ UNCHANGED << online, writes, sleep_lock, atomic_lock, recur_count,
                    align_data, corrupt, panicked >>

\* spin_unlock(l), the statement the task is at.
spin_unlock(t) ==
    /\ At(t, "deadlock_splat")
    /\ LET l == deadlock_splat_code[task[t].step][2] IN
       /\ deadlock_splat_code[task[t].step][1] = "spin_unlock"
       /\ spin' = [spin EXCEPT ![l] = 0]
       /\ Set(t, AfterStep(task[t].step) @@
                 [held_locks |-> Release(task[t].held_locks, l),
                  preempt_count |-> task[t].preempt_count - 1])
    /\ UNCHANGED << online, writes, sleep_lock, atomic_lock, recur_count,
                    align_data, corrupt, panicked >>

\* ------------------------------------------------------ the specification

\* The task an oops killed has exited; the next process uses the file.
do_exit(t) ==
    /\ At(t, "oops")
    /\ Set(t, IdleTask)
    /\ UNCHANGED << online, writes, shared >>

\* A step of task t inside the kernel.
Kernel(t) ==
    \/ procfs_write_return(t)
    \/ do_crash(t)
    \/ panic(t)
    \/ BUG(t)
    \/ null_write(t)
    \/ for_ever(t)
    \/ recursive_loop(t)
    \/ corrupt_stack(t)
    \/ unaligned(t)
    \/ overwrite_allocation(t)
    \/ write_after_free(t)
    \/ memset_freed(t)
    \/ softlockup(t)
    \/ hardlockup(t)
    \/ hung_task(t)
    \/ down_read(t)
    \/ read_lock(t)
    \/ schedule_timeout(t)
    \/ read_unlock(t)
    \/ up_read(t)
    \/ spin_lock(t)
    \/ spin_unlock(t)
    \/ sys_return(t)
    \/ do_exit(t)

\* A call of task t from user space.
User(t) ==
    \/ procfs_read(t)
    \/ procfs_write(t)

Next == \E t \in Tasks : User(t) \/ Kernel(t)

\* The file, used by one task at a time.
Spec == Init /\ [][Next]_vars

\* A task in a call is on a CPU: it takes the next step of the call
\* whenever there is one.
FairSpec == Spec /\ \A t \in Tasks : WF_vars(Kernel(t))

\* The write path alone, for every payload: procfs_write, the switch of
\* do_crash and the return; the case the switch selects is not run.
NextWrite ==
    \E t \in Tasks :
        \/ procfs_write(t)
        \/ do_crash(t)
        \/ procfs_write_return(t)
        \/ sys_return(t)

SpecWrite == InitWrite /\ [][NextWrite]_vars

\* Two tasks at once in the routines that take locks, deadlock_splat and
\* scheduling_while_atomic, and in procfs_read.
NextLocks ==
    \E t \in Tasks :
        \/ procfs_read(t)
        \/ procfs_write(t)
        \/ do_crash(t)
        \/ spin_lock(t)
        \/ spin_unlock(t)
        \/ down_read(t)
        \/ read_lock(t)
        \/ schedule_timeout(t)
        \/ read_unlock(t)
        \/ up_read(t)
        \/ procfs_write_return(t)
        \/ sys_return(t)

SpecLocks == InitLocks /\ [][NextLocks]_vars

\* ==================================================================
\* The properties
\* ==================================================================

\* The catalog as documented: each name, the fault kind it stands for and
\* the first statement of the routine that injects it.
Catalog ==
    << [name |-> S_PANIC, kind |-> CT_PANIC, routine |-> "panic"],
       [name |-> S_BUG, kind |-> CT_BUG, routine |-> "BUG"],
       [name |-> S_EXCEPTION, kind |-> CT_EXCEPTION, routine |-> "null_write"],
       [name |-> S_LOOP, kind |-> CT_LOOP, routine |-> "loop"],
       [name |-> S_OVERFLOW, kind |-> CT_OVERFLOW,
        routine |-> "recursive_loop"],
       [name |-> S_CORRUPT_STACK, kind |-> CT_CORRUPT_STACK,
        routine |-> "corrupt_stack"],
       [name |-> S_UNALIGNED_LOAD_STORE_WRITE,
        kind |-> CT_UNALIGNED_LOAD_STORE_WRITE, routine |-> "unaligned"],
       [name |-> S_OVERWRITE_ALLOCATION, kind |-> CT_OVERWRITE_ALLOCATION,
        routine |-> "overwrite_allocation"],
       [name |-> S_WRITE_AFTER_FREE, kind |-> CT_WRITE_AFTER_FREE,
        routine |-> "write_after_free"],
       [name |-> S_SOFTLOCKUP, kind |-> CT_SOFTLOCKUP,
        routine |-> "preempt_disable"],
       [name |-> S_HARDLOCKUP, kind |-> CT_HARDLOCKUP,
        routine |-> "local_irq_disable"],
       [name |-> S_HUNG_TASK, kind |-> CT_HUNG_TASK, routine |-> "hung_task"],
       [name |-> S_SCHEDULING_WHILE_ATOMIC,
        kind |-> CT_SCHEDULING_WHILE_ATOMIC, routine |-> "down_read"],
       [name |-> S_DEADLOCK, kind |-> CT_DEADLOCK,
        routine |-> "deadlock_splat"] >>

Entries == {Catalog[i] : i \in 1..Len(Catalog)}

\* Spaces, tabs and newlines only.
Blank(s) == \A i \in 1..Len(s) : s[i] \in {" ", "\t", "\n"}

\* p is n with whitespace before and after it.
Padded(p, n) ==
    \E i \in 0..Len(p), j \in 0..Len(p) :
        /\ i <= j
        /\ SubSeq(p, i + 1, j) = n
        /\ Blank(SubSeq(p, 1, i))
        /\ Blank(SubSeq(p, j + 1, Len(p)))

\* p is n with whitespace after it.
TrailPadded(p, n) ==
    /\ Len(n) <= Len(p)
    /\ SubSeq(p, 1, Len(n)) = n
    /\ Blank(SubSeq(p, Len(n) + 1, Len(p)))

\* The text of a payload up to its first NUL byte, without the whitespace
\* around it.
RECURSIVE DropBlanks(_)
DropBlanks(s) ==
    IF s # << >> /\ Blank(<<Head(s)>>) THEN DropBlanks(Tail(s)) ELSE s

RECURSIVE Reverse(_)
Reverse(s) == IF s = << >> THEN << >> ELSE Reverse(Tail(s)) \o <<Head(s)>>

Normalized(p) == Reverse(DropBlanks(Reverse(DropBlanks(CStr(p)))))

\* The payload names no fault.
Unnamed(p) == \A e \in Entries : Normalized(p) # e.name

\* The write of task t was accepted: it is past the checks of procfs_write.
Accepted(t) ==
    /\ task[t].call = "write"
    /\ task[t].pc \notin {"user"}
    /\ ~(At(t, "ret") /\ task[t].ret < 0)

\* C1 as claimed: a payload that is a catalog name with whitespace before
\* and/or after it selects the fault kind of that name.
C1_SurroundingWhitespace ==
    \A t \in Tasks : \A e \in Entries :
        At(t, "do_crash") /\ Padded(task[t].ubuf, e.name)
            => task[t].which = e.kind

\* C1, amended: a payload that is a catalog name followed by whitespace
\* (spaces, tabs, newlines), within the size limit, selects the fault kind
\* of that name, and none is rejected.
C1_TrailingWhitespace ==
    \A t \in Tasks : \A e \in Entries :
        /\ Accepted(t) /\ TrailPadded(task[t].ubuf, e.name)
             => task[t].which = e.kind
        /\ task[t].call = "write" /\ TrailPadded(task[t].ubuf, e.name)
            /\ Len(task[t].ubuf) <= 31
             => task[t].ret # -E2BIG

\* "PANIC\n" has selected CT_PANIC.
C1_Witness ==
    \E t \in Tasks :
        /\ At(t, "do_crash")
        /\ task[t].ubuf = S_PANIC \o <<"\n">>
        /\ task[t].which = CT_PANIC


\* The step is one of task t, which leaves the place it was at.
Moves(t) == task'[t].pc # task[t].pc

\* C2: each name of the catalog, written as it is, selects the fault kind
\* declared at its place in the enumeration (the i-th name the kind i,
\* never CT_NONE), distinct names select distinct kinds, and do_crash goes
\* on to the routine documented for the name.
C2_ParseInvertsCatalog ==
    /\ [](\A t \in Tasks : \A i \in 1..Len(Catalog) :
            Accepted(t) /\ task[t].ubuf = Catalog[i].name
                => /\ task[t].which = i
                   /\ task[t].which = Catalog[i].kind
                   /\ task[t].which # CT_NONE
                   /\ \A j \in 1..Len(Catalog) :
                        task[t].which = Catalog[j].kind => j = i)
    /\ [][\A t \in Tasks : \A e \in Entries :
            At(t, "do_crash") /\ task[t].ubuf = e.name /\ Moves(t)
                => task'[t].pc = e.routine]_vars

\* "DEADLOCK" has taken a task to deadlock_splat.
C2_Witness ==
    \E t \in Tasks :
        /\ At(t, "deadlock_splat")
        /\ task[t].ubuf = S_DEADLOCK
        /\ task[t].which = CT_DEADLOCK

\* C3: a payload of more than 31 bytes is rejected with -E2BIG, by a step
\* that changes nothing else and leads only to the return of the call; a
\* payload of 31 bytes or fewer is never rejected with -E2BIG.
C3_TooLarge ==
    /\ [](\A t \in Tasks :
            task[t].call = "write" =>
                /\ Len(task[t].ubuf) > 31
                     => At(t, "ret") /\ task[t].ret = -E2BIG
                /\ Len(task[t].ubuf) <= 31
                     => ~(At(t, "ret") /\ task[t].ret = -E2BIG))
    /\ [][\A t \in Tasks :
            Moves(t) /\ Len(task'[t].ubuf) > 31
                => /\ shared' = shared
                   /\ task'[t].which = CT_NONE
                   /\ \A u \in Tasks \ {t} : task'[u] = task[u]]_vars

\* "PANIC" padded to 32 bytes has been rejected.
C3_Witness ==
    \E t \in Tasks :
        /\ At(t, "ret")
        /\ task[t].ubuf = PadTo(S_PANIC, 32)
        /\ task[t].ret = -E2BIG

\* C4: an accepted payload that names no fault selects CT_NONE; do_crash
\* then goes to its break and changes nothing, and the write returns the
\* number of bytes written.
C4_UnnamedIsNoOp ==
    /\ [](\A t \in Tasks :
            Accepted(t) /\ Unnamed(task[t].ubuf) =>
                /\ task[t].which = CT_NONE
                /\ task[t].pc \in {"do_crash", "break", "ret"}
                /\ At(t, "ret") => task[t].ret = Len(task[t].ubuf))
    /\ [][\A t \in Tasks :
            Accepted(t) /\ Unnamed(task[t].ubuf) /\ Moves(t)
                => /\ shared' = shared
                   /\ \A u \in Tasks \ {t} : task'[u] = task[u]
                   /\ At(t, "do_crash") => task'[t].pc = "break"
                   /\ At(t, "break") => task'[t].pc = "ret"]_vars

\* The write of "BOGUS" has returned 5.
C4_Witness ==
    \E t \in Tasks :
        /\ At(t, "ret")
        /\ task[t].ubuf = <<"B","O","G","U","S">>
        /\ task[t].which = CT_NONE
        /\ task[t].ret = 5


\* The locks a task holds before each statement of deadlock_splat, as
\* documented: lock1 then lock2, both released, lock2 then lock1, both
\* released.
HeldBefore ==
    << << >>, <<"lock1">>, <<"lock1", "lock2">>, <<"lock1">>,
       << >>, <<"lock2">>, <<"lock2", "lock1">>, <<"lock2">> >>

\* The spin locks task t holds.
Holds(t) == {l \in DOMAIN spin : spin[l] = t}

\* The elements of a sequence.
Range(f) == {f[i] : i \in DOMAIN f}

\* Task t is the only one inside deadlock_splat.
Alone(t) == \A u \in Tasks \ {t} : ~At(u, "deadlock_splat")

\* The write of task t that selected the kind which has returned from
\* do_crash.
Returned(t, which) ==
    /\ task[t].call = "write"
    /\ task[t].which = which
    /\ task[t].pc \in {"break", "ret"}

\* C5: a task that runs deadlock_splat with no other task in it takes lock1
\* then lock2, releases both, takes lock2 then lock1, releases both, has a
\* step to take at every statement, and returns to the caller holding
\* neither lock; every invocation does.
C5_DeadlockSequential ==
    /\ [](\A t \in Tasks :
            /\ At(t, "deadlock_splat") /\ Alone(t) =>
                 /\ task[t].step \in 1..Len(HeldBefore)
                 /\ task[t].held_locks = HeldBefore[task[t].step]
                 /\ Holds(t) = Range(task[t].held_locks)
                 /\ ENABLED (spin_lock(t) \/ spin_unlock(t))
            /\ Returned(t, CT_DEADLOCK) =>
                 /\ Holds(t) = {}
                 /\ task[t].held_locks = << >>
                 /\ task[t].preempt_count = 0)
    /\ \A t \in Tasks :
         (At(t, "deadlock_splat") /\ Alone(t))
             ~> (At(t, "ret") /\ task[t].ret = Len(task[t].ubuf)
                 /\ Holds(t) = {})

\* The write of "DEADLOCK\n" has returned 9, and both locks are free.
C5_Witness ==
    \E t \in Tasks :
        /\ At(t, "ret")
        /\ task[t].which = CT_DEADLOCK
        /\ task[t].ret = 9
        /\ \A l \in DOMAIN spin : spin[l] = 0

\* The lock each statement of deadlock_splat takes, as documented ("" for
\* a statement that releases one).
Takes == <<"lock1", "lock2", "", "", "lock2", "lock1", "", "">>

\* Task t is at a statement that takes a lock, and the lock is held.
Waiting(t) ==
    /\ At(t, "deadlock_splat")
    /\ Takes[task[t].step] # ""
    /\ spin[Takes[task[t].step]] # 0

\* One task holds lock1 and waits for lock2, another holds lock2 and waits
\* for lock1.
CircularWait ==
    \E t, u \in Tasks :
        /\ t # u
        /\ Waiting(t) /\ Waiting(u)
        /\ spin["lock1"] = t /\ task[t].step = 2
        /\ spin["lock2"] = u /\ task[u].step = 6

\* C6: a task in deadlock_splat waits only for a lock that another task,
\* itself inside deadlock_splat, holds (so a task alone in it never
\* waits); and once two tasks wait for each other's lock, they do for
\* ever: neither returns.
C6_ConcurrentDeadlock ==
    /\ [](\A t \in Tasks :
            Waiting(t) =>
                \E u \in Tasks \ {t} :
                    /\ At(u, "deadlock_splat")
                    /\ spin[Takes[task[t].step]] = u)
    /\ [][CircularWait => CircularWait' /\ UNCHANGED task]_vars

\* Two tasks wait for each other's lock.
C6_Witness == CircularWait

\* The lines of the listing as documented: the 14 names, PANIC first,
\* DEADLOCK last.
RECURSIVE Listing(_)
Listing(i) ==
    IF i > Len(Catalog) THEN << >>
    ELSE Catalog[i].name \o <<"\n">> \o Listing(i + 1)

\* C7: a read of the file returns the 14 names, one per line, in the order
\* of the catalog, whatever was read or written before.
C7_ListIsFixed ==
    \A t \in Tasks :
        At(t, "ret") /\ task[t].call = "read" =>
            /\ task[t].ret = 0
            /\ task[t].m = Listing(1)
            /\ Len(Catalog) = 14
            /\ SubSeq(task[t].m, 1, 6) = S_PANIC \o <<"\n">>
            /\ SubSeq(task[t].m, Len(task[t].m) - 8, Len(task[t].m))
                 = S_DEADLOCK \o <<"\n">>

\* A read has returned after writes that returned: of
\* UNALIGNED_LOAD_STORE_WRITE, and of OVERWRITE_ALLOCATION or
\* WRITE_AFTER_FREE.
C7_Witness ==
    \E t \in Tasks :
        /\ At(t, "ret")
        /\ task[t].call = "read"
        /\ task[t].m # << >>
        /\ align_data # AlignInit
        /\ "heap" \in corrupt

\* C8 as claimed: the recursion of an invocation of OVERFLOW stops in its
\* 40th frame, whatever other invocations did before or do meanwhile.
C8_FortyFrames ==
    [][\A t \in Tasks :
        At(t, "recursive_loop") /\ task'[t].pc = "break"
            => task[t].depth + 1 = 40]_vars

\* C9: in scheduling_while_atomic the semaphore is taken first, the
\* rwlock second, the task yields holding both, the rwlock is released
\* first, and the task returns holding neither.
C9_SleepWhileAtomic ==
    \A t \in Tasks :
        /\ At(t, "read_lock") =>
             /\ task[t].held_locks = <<"sleep_lock">>
             /\ t \in sleep_lock /\ t \notin atomic_lock
        /\ task[t].pc \in {"schedule_timeout", "read_unlock"} =>
             /\ task[t].held_locks = <<"sleep_lock", "atomic_lock">>
             /\ t \in sleep_lock /\ t \in atomic_lock
             /\ task[t].preempt_count > 0
        /\ At(t, "up_read") =>
             /\ task[t].held_locks = <<"sleep_lock">>
             /\ t \in sleep_lock /\ t \notin atomic_lock
        /\ Returned(t, CT_SCHEDULING_WHILE_ATOMIC) =>
             /\ task[t].held_locks = << >>
             /\ t \notin sleep_lock /\ t \notin atomic_lock
             /\ task[t].preempt_count = 0

\* A task has yielded holding both locks, while the other task holds them
\* too.
C9_Witness ==
    \E t \in Tasks :
        /\ At(t, "read_unlock")
        /\ sleep_lock = Tasks
        /\ atomic_lock = Tasks

\* The kinds whose routine is a loop without end.
Lockups == {CT_LOOP, CT_SOFTLOCKUP, CT_HARDLOCKUP}

\* C10: a task that do_crash sent to LOOP, SOFTLOCKUP or HARDLOCKUP never
\* comes back from do_crash; SOFTLOCKUP loops with preemption disabled and
\* HARDLOCKUP with interrupts disabled, and neither is enabled again.
C10_LockupsNeverReturn ==
    /\ [](\A t \in Tasks :
            /\ At(t, "softlockup") => task[t].preempt_count > 0
            /\ At(t, "hardlockup") => task[t].irqs_disabled
            /\ task[t].call = "write" /\ task[t].which \in Lockups
                 => task[t].pc \in {"do_crash", "loop", "preempt_disable",
                                    "softlockup", "local_irq_disable",
                                    "hardlockup"})
    /\ [][\A t \in Tasks :
            /\ task[t].pc \in {"loop", "softlockup", "hardlockup"}
                 => task'[t] = task[t]
            /\ At(t, "do_crash") /\ Moves(t) =>
                 /\ task[t].which = CT_LOOP => task'[t].pc = "loop"
                 /\ task[t].which = CT_SOFTLOCKUP
                      => task'[t].pc = "preempt_disable"
                 /\ task[t].which = CT_HARDLOCKUP
                      => task'[t].pc = "local_irq_disable"
            /\ At(t, "preempt_disable") /\ Moves(t)
                 => task'[t].pc = "softlockup"
            /\ At(t, "local_irq_disable") /\ Moves(t)
                 => task'[t].pc = "hardlockup"]_vars

\* A task loops in HARDLOCKUP with interrupts disabled.
C10_Witness ==
    \E t \in Tasks :
        /\ At(t, "hardlockup")
        /\ task[t].which = CT_HARDLOCKUP
        /\ task[t].irqs_disabled

=============================================================================
